---- MODULE Spec2Model ----
(***************************************************************************)
(* qtfaststart: src/qtfaststart/processor.py.                              *)
(*                                                                         *)
(* A file is a sequence of bytes (0..255).  process() is modelled as a     *)
(* state machine whose steps are the iterations of the code's loops: the   *)
(* top-level index scan, the layout plan, the compressed-header scan, the  *)
(* stco/co64 tree walk and patch, and the chunked copy to the output file. *)
(* Four-character codes are 4-tuples of bytes, integers are read and       *)
(* written big-endian exactly as struct.unpack / struct.pack do.           *)
(*                                                                         *)
(* TLC integers are 32-bit: every size and offset field that the inputs    *)
(* below contain is below 2^31, and 64-bit fields have a zero high word.   *)
(***************************************************************************)
EXTENDS Integers, Sequences, FiniteSets, TLC

VARIABLES
    infile,      \* bytes of the input file (open(infilename, "rb"))
    limit,       \* process(limit=...)
    to_end,      \* process(to_end=...)
    cleanup,     \* process(cleanup=...)
    pc,          \* position of process() in its code
    result,      \* "running", "ok", or the name of the exception raised
    pos,         \* datastream.tell()
    index,       \* list of Atom(name, position, size), see get_index
    moov_atom,   \* process: moov_atom (moov_pos is moov_atom.position)
    mdat_pos,    \* process: mdat_pos
    free_size,   \* process: free_size
    offset,      \* process: offset
    child_atom,  \* _moov_is_compressed: child_atom of the last iteration
    moov,        \* _patch_moov: the io.BytesIO buffer
    mpos,        \* moov.tell()
    stack,       \* _find_atoms_ex: stop bounds of the active generator frames
    atom,        \* _find_atoms_ex / _patch_moov: atom read last in the buffer
    out_open,    \* the output file has been created (open(outfilename, "wb"))
    outfile,     \* bytes written to the output file
    atoms,       \* process: atoms still to be copied ("Write the rest")
    remaining,   \* get_chunks: remaining
    mdat_out,    \* outfile.tell() when the copy of the mdat atom began, or -1
    copied,      \* the atoms copied so far, each with the number of bytes written
    run,         \* 1 for the first call of process, 2 for the call on its output
    shape        \* how the input of run 1 was built: [layout, kind]

vars == <<infile, limit, to_end, cleanup, pc, result, pos, index, moov_atom,
          mdat_pos, free_size, offset, child_atom, moov, mpos, stack, atom,
          out_open, outfile, atoms, remaining, mdat_out, copied, run, shape>>

(***************************************************************************)
(* Bounds of the model.                                                    *)
(***************************************************************************)
\* longest top-level layout (number of top-level atoms) of an input file
MaxTop == 3
\* most direct children of a generated moov atom in the patcher's inputs
MaxKids == 2

(***************************************************************************)
(* Program constants.                                                      *)
(***************************************************************************)
CHUNK_SIZE == 8192
\* process: mdat_pos = 999999
MDAT_SENTINEL == 999999
\* limit=float('inf'); no other value of limit is negative
INF == -1

(***************************************************************************)
(* Four-character codes (ASCII).                                           *)
(***************************************************************************)
T_ftyp == <<102, 116, 121, 112>>
T_moov == <<109, 111, 111, 118>>
T_mdat == <<109, 100, 97, 116>>
T_free == <<102, 114, 101, 101>>
T_zero == <<0, 0, 0, 0>>
T_wide == <<119, 105, 100, 101>>
T_trak == <<116, 114, 97, 107>>
T_mdia == <<109, 100, 105, 97>>
T_minf == <<109, 105, 110, 102>>
T_stbl == <<115, 116, 98, 108>>
T_stco == <<115, 116, 99, 111>>
T_co64 == <<99, 111, 54, 52>>
T_cmov == <<99, 109, 111, 118>>
T_udta == <<117, 100, 116, 97>>
\* a type code that type.decode('ascii') rejects
T_bad  == <<98, 97, 100, 200>>

Min(a, b) == IF a < b THEN a ELSE b

(***************************************************************************)
(* struct.unpack / struct.pack, big-endian.                                *)
(***************************************************************************)
U32(b) == b[1] * 16777216 + b[2] * 65536 + b[3] * 256 + b[4]

U64(b) == U32(SubSeq(b, 1, 4)) * 65536 * 65536 + U32(SubSeq(b, 5, 8))

Enc32(v) == << (v \div 16777216) % 256, (v \div 65536) % 256,
               (v \div 256) % 256, v % 256 >>

Enc64(v) == Enc32((v \div 65536) \div 65536) \o Enc32(v)

\* struct.pack range of ">L" (0 .. 2^32-1) and of ">Q" (0 .. 2^64-1)
Packable(v, csize) ==
    /\ v >= 0
    /\ (csize = 4 => (v \div 65536) <= 65535)

\* stream.read(n) at position p: at most n bytes, fewer at the end of the data
Read(f, p, n) == SubSeq(f, p + 1, Min(p + n, Len(f)))

(***************************************************************************)
(* read_atom and _read_atom_ex.  err is "" on success, else the exception  *)
(* raised; next is the stream position after the bytes that were read.     *)
(***************************************************************************)
NoAtom == [name |-> <<>>, position |-> -1, size |-> 0]

Atom(name, position, size) ==
    [name |-> name, position |-> position, size |-> size]

ReadFail(e, next) ==
    [err |-> e, name |-> <<>>, position |-> -1, size |-> 0, next |-> next]

read_atom(f, p) ==
    LET d == Read(f, p, 8) IN
    IF Len(d) # 8 THEN ReadFail("struct.error", p + Len(d))
    ELSE IF \E i \in 5..8 : d[i] >= 128
         THEN ReadFail("UnicodeDecodeError", p + 8)
    ELSE [err |-> "", name |-> SubSeq(d, 5, 8), position |-> p,
          size |-> U32(SubSeq(d, 1, 4)), next |-> p + 8]

_read_atom_ex(f, p) ==
    LET a == read_atom(f, p) IN
    IF a.err # "" THEN a
    ELSE IF a.size = 1
         THEN LET d == Read(f, p + 8, 8) IN
              IF Len(d) # 8 THEN ReadFail("struct.error", p + 8 + Len(d))
              ELSE [a EXCEPT !.size = U64(d), !.next = p + 16]
         ELSE a

AsAtom(a) == Atom(a.name, a.position, a.size)

(***************************************************************************)
(* Input files.  An input is built from a top-level layout (a sequence of  *)
(* atom kinds) and the kind of content of its moov atom.  The chunk-offset *)
(* entries of the moov atom address the two sample bytes of the mdat atom. *)
(***************************************************************************)
Box(name, payload) == Enc32(8 + Len(payload)) \o name \o payload

\* an atom that uses the 64-bit size extension (size field 1)
Box64(name, payload) == Enc32(1) \o name \o Enc64(16 + Len(payload)) \o payload

\* an atom whose size field is given, whatever its payload
RawBox(size, name, payload) == Enc32(size) \o name \o payload

RECURSIVE Nest(_, _)
Nest(names, payload) ==
    IF names = <<>> THEN payload
    ELSE Box(Head(names), Nest(Tail(names), payload))

RECURSIVE Enc32s(_)
Enc32s(es) == IF es = <<>> THEN <<>> ELSE Enc32(Head(es)) \o Enc32s(Tail(es))

RECURSIVE Enc64s(_)
Enc64s(es) == IF es = <<>> THEN <<>> ELSE Enc64(Head(es)) \o Enc64s(Tail(es))

\* an stco atom: version/flags, entry count, 32-bit entries
Table32(es) == Box(T_stco, Enc32(0) \o Enc32(Len(es)) \o Enc32s(es))

\* a co64 atom: version/flags, entry count, 64-bit entries
Table64(es) == Box(T_co64, Enc32(0) \o Enc32(Len(es)) \o Enc64s(es))

\* the sample bytes of the mdat atom
SAMPLES == <<65, 66>>

MoovKinds ==
    {"stco", "co64", "cmov", "ext_cmov", "zero_child", "bad_child",
     "bad_nested", "zero_nested", "neg_entry", "short_table", "trunc"}

\* the kinds whose moov atom has a direct child of type cmov
CmovKinds == {"cmov", "ext_cmov"}

MoovBytes(kind, e) ==
    CASE kind = "stco" ->
           Box(T_moov, Nest(<<T_trak, T_mdia, T_minf, T_stbl>>, Table32(e)))
      [] kind = "co64" ->
           Box(T_moov, Box(T_udta, <<>>) \o Nest(<<T_trak>>, Table64(e)))
      [] kind = "cmov" ->
           Box(T_moov, Box(T_cmov, <<>>))
      [] kind = "ext_cmov" ->
           Box(T_moov, Box64(T_udta, <<>>) \o Box(T_cmov, <<>>))
      [] kind = "zero_child" ->
           Box(T_moov, RawBox(0, T_udta, <<>>) \o Table32(e))
      [] kind = "bad_child" ->
           Box(T_moov, Box(T_bad, <<>>) \o Table32(e))
      [] kind = "bad_nested" ->
           Box(T_moov, Box(T_trak, Box(T_bad, <<>>)))
      [] kind = "zero_nested" ->
           Box(T_moov, Box(T_trak, RawBox(0, T_udta, <<>>) \o Table32(e)))
      [] kind = "neg_entry" ->
           Box(T_moov, Box(T_trak, Table32(<<0, e[1]>>)))
      [] kind = "short_table" ->
           Box(T_moov, RawBox(28, T_stco, Enc32(0) \o Enc32(3) \o Enc32(e[1])))
      [] kind = "trunc" ->
           RawBox(20, T_moov, <<0, 0, 0, 8>>)

TopKinds == {"ftyp", "moov", "mdat", "mdat0", "free", "zero", "wide"}

TopBytes(k) ==
    CASE k = "ftyp"  -> Box(T_ftyp, <<105, 115, 111, 109>>)
      [] k = "mdat"  -> Box(T_mdat, SAMPLES)
      [] k = "mdat0" -> RawBox(0, T_mdat, SAMPLES)
      [] k = "free"  -> Box(T_free, <<>>)
      [] k = "zero"  -> RawBox(0, T_zero, <<>>)
      [] k = "wide"  -> Box(T_wide, <<>>)

Count(layout, ks) == Cardinality({i \in DOMAIN layout : layout[i] \in ks})

\* layouts of at most MaxTop atoms with at most one moov and at most one mdat
Layouts ==
    {l \in UNION {[1..n -> TopKinds] : n \in 1..MaxTop} :
        /\ Count(l, {"moov"}) <= 1
        /\ Count(l, {"mdat", "mdat0"}) <= 1}

\* the layout holds a moov atom and an mdat atom
Complete(l) == Count(l, {"moov"}) = 1 /\ Count(l, {"mdat", "mdat0"}) = 1

RECURSIVE BuildFrom(_, _, _, _)
BuildFrom(layout, i, kind, e) ==
    IF i > Len(layout) THEN <<>>
    ELSE (IF layout[i] = "moov" THEN MoovBytes(kind, e) ELSE TopBytes(layout[i]))
         \o BuildFrom(layout, i + 1, kind, e)

\* position of the mdat atom of the layout (0 when it has none)
RECURSIVE MdatStart(_, _, _)
MdatStart(layout, i, kind) ==
    IF i > Len(layout) THEN 0
    ELSE IF layout[i] \in {"mdat", "mdat0"} THEN 0
    ELSE Len(IF layout[i] = "moov" THEN MoovBytes(kind, <<0, 0>>)
             ELSE TopBytes(layout[i]))
         + MdatStart(layout, i + 1, kind)

\* the entries of the input: the positions of the two sample bytes
Entries(layout, kind) ==
    LET p == MdatStart(layout, 1, kind) IN <<p + 8, p + 9>>

BuildFile(layout, kind) == BuildFrom(layout, 1, kind, Entries(layout, kind))

(***************************************************************************)
(* process: the scan of the index for moov, mdat, free and zero atoms      *)
(* (lines 196-216) and the offset (lines 218-227).                         *)
(***************************************************************************)
PlanStep(a, st, cl) ==
    IF a.name = T_moov THEN [st EXCEPT !.moov_atom = a]
    ELSE IF a.name = T_mdat THEN [st EXCEPT !.mdat_pos = a.position]
    ELSE IF a.name = T_free /\ a.position < st.mdat_pos /\ cl
         THEN [st EXCEPT !.free_size = @ + a.size]
    ELSE IF a.name = T_zero /\ a.position < st.mdat_pos
         THEN [st EXCEPT !.free_size = @ + 8]
    ELSE st

RECURSIVE PlanScan(_, _, _, _)
PlanScan(idx, i, st, cl) ==
    IF i > Len(idx) THEN st
    ELSE PlanScan(idx, i + 1, PlanStep(idx[i], st, cl), cl)

PlanStart == [moov_atom |-> NoAtom, mdat_pos |-> MDAT_SENTINEL, free_size |-> 0]

\* the offset with the requested layout left out of account
ComputeOffset_IgnoresToEnd(fs, ma, mp, te) ==
    IF ma.position < mp THEN (- fs) - ma.size ELSE (- fs) + ma.size

ComputeOffset(fs, ma, mp, te) ==
    IF ma.position < mp
    THEN (IF te THEN (- fs) - ma.size ELSE - fs)
    ELSE (IF ~te THEN (- fs) + ma.size ELSE - fs)

Names(idx) == {idx[i].name : i \in DOMAIN idx}

\* min(limit or float('inf'), atom.size)
CurLimit(lim, size) == IF lim = INF \/ lim = 0 THEN size ELSE Min(lim, size)

SkipTypes(cl) == IF cl THEN {T_ftyp, T_moov, T_free} ELSE {T_ftyp, T_moov}

RECURSIVE Select(_, _)
Select(idx, skip) ==
    IF idx = <<>> THEN <<>>
    ELSE IF Head(idx).name \in skip THEN Select(Tail(idx), skip)
    ELSE <<Head(idx)>> \o Select(Tail(idx), skip)

\* "Write ftype": every ftyp atom of the index, datastream.read(atom.size)
RECURSIVE FtypBytes(_, _)
FtypBytes(f, idx) ==
    IF idx = <<>> THEN <<>>
    ELSE (IF Head(idx).name = T_ftyp
          THEN Read(f, Head(idx).position, Head(idx).size) ELSE <<>>)
         \o FtypBytes(f, Tail(idx))

\* datastream.tell() after "Write ftype": the end of the bytes read of the
\* last ftyp atom of the index, or p when the index has no ftyp atom
RECURSIVE FtypTell(_, _, _)
FtypTell(f, idx, p) ==
    IF idx = <<>> THEN p
    ELSE FtypTell(f, Tail(idx),
                  IF Head(idx).name = T_ftyp
                  THEN Head(idx).position
                       + Len(Read(f, Head(idx).position, Head(idx).size))
                  ELSE p)

(***************************************************************************)
(* The state of a call of process on file f, before its first step.        *)
(***************************************************************************)
Start(f) ==
    /\ infile = f
    /\ pc = "index"
    /\ result = "running"
    /\ pos = 0
    /\ index = <<>>
    /\ moov_atom = NoAtom
    /\ mdat_pos = MDAT_SENTINEL
    /\ free_size = 0
    /\ offset = 0
    /\ child_atom = NoAtom
    /\ moov = <<>>
    /\ mpos = 0
    /\ stack = <<>>
    /\ atom = NoAtom
    /\ out_open = FALSE
    /\ outfile = <<>>
    /\ atoms = <<>>
    /\ remaining = 0
    /\ mdat_out = -1
    /\ copied = <<>>

\* limit: the default, 0 ("for compatability, allow '0' to mean no limit"),
\* and a limit shorter than the mdat atom
Limits == {INF, 0, 9}

\* Every layout with an stco moov atom and no limit; the other kinds of moov
\* atom, and the other limits, with the layouts that hold a moov and an mdat.
Init ==
    \E l \in Layouts, k \in MoovKinds, lim \in Limits,
       te \in BOOLEAN, cl \in BOOLEAN :
        /\ k = "stco" \/ Complete(l)
        /\ lim = INF \/ (k = "stco" /\ Complete(l))
        /\ Start(BuildFile(l, k))
        /\ limit = lim
        /\ to_end = te
        /\ cleanup = cl
        /\ run = 1
        /\ shape = [layout |-> l, kind |-> k]

\* raise: process ends with exception e
Raise(e) == pc' = "done" /\ result' = e

(***************************************************************************)
(* _read_atoms: one iteration of the scan of the top-level atoms.          *)
(***************************************************************************)
ReadAtoms ==
    /\ pc = "index"
    /\ LET a == _read_atom_ex(infile, pos) IN
       IF a.err # ""
       THEN /\ pc' = "validate"
            /\ pos' = a.next
            /\ UNCHANGED index
       ELSE /\ index' = Append(index, AsAtom(a))
            /\ IF a.size = 0
               THEN /\ pos' = a.next
                    /\ pc' = IF a.name = T_mdat THEN "validate" ELSE "index"
               ELSE /\ pos' = a.position + a.size
                    /\ pc' = "index"
    /\ UNCHANGED <<infile, limit, to_end, cleanup, result, moov_atom, mdat_pos,
                   free_size, offset, child_atom, moov, mpos, stack, atom,
                   out_open, outfile, atoms, remaining, mdat_out, copied, run, shape>>

(***************************************************************************)
(* _ensure_valid_index.                                                    *)
(***************************************************************************)
EnsureValidIndex ==
    /\ pc = "validate"
    /\ IF T_moov \notin Names(index) \/ T_mdat \notin Names(index)
       THEN Raise("MalformedFileError")
       ELSE pc' = "plan" /\ UNCHANGED result
    /\ UNCHANGED <<infile, limit, to_end, cleanup, pos, index, moov_atom,
                   mdat_pos, free_size, offset, child_atom, moov, mpos, stack,
                   atom, out_open, outfile, atoms, remaining, mdat_out, copied, run,
                   shape>>

(***************************************************************************)
(* process, lines 196-233: the plan of the layout and the no-op check.     *)
(***************************************************************************)
Plan ==
    /\ pc = "plan"
    /\ LET st == PlanScan(index, 1, PlanStart, cleanup)
           off == ComputeOffset(st.free_size, st.moov_atom, st.mdat_pos, to_end)
       IN /\ moov_atom' = st.moov_atom
          /\ mdat_pos' = st.mdat_pos
          /\ free_size' = st.free_size
          /\ offset' = off
          /\ IF off = 0
             THEN Raise("FastStartSetupError") /\ UNCHANGED pos
             ELSE /\ pc' = "cmov"
                  /\ pos' = st.moov_atom.position + 8
                  /\ UNCHANGED result
    /\ UNCHANGED <<infile, limit, to_end, cleanup, index, child_atom, moov,
                   mpos, stack, atom, out_open, outfile, atoms, remaining,
                   mdat_out, copied, run, shape>>

(***************************************************************************)
(* _moov_is_compressed: one iteration of the scan of moov's children, and  *)
(* process, lines 235-240.                                                 *)
(***************************************************************************)
MoovIsCompressed ==
    /\ pc = "cmov"
    /\ IF pos >= moov_atom.position + moov_atom.size
       THEN pc' = "load" /\ UNCHANGED <<result, pos, child_atom>>
       ELSE LET c == _read_atom_ex(infile, pos) IN
            IF c.err # ""
            THEN Raise(c.err) /\ pos' = c.next /\ UNCHANGED child_atom
            ELSE /\ child_atom' = AsAtom(c)
                 /\ pos' = c.next + c.size - 8
                 /\ IF c.name = T_cmov
                    THEN Raise("UnsupportedFormatError")
                    ELSE UNCHANGED <<pc, result>>
    /\ UNCHANGED <<infile, limit, to_end, cleanup, index, moov_atom, mdat_pos,
                   free_size, offset, moov, mpos, stack, atom, out_open,
                   outfile, atoms, remaining, mdat_out, copied, run, shape>>

(***************************************************************************)
(* _patch_moov, lines 292-296: load the moov atom into the buffer.         *)
(***************************************************************************)
PatchLoad ==
    /\ pc = "load"
    /\ LET buf == Read(infile, moov_atom.position, moov_atom.size)
           a == _read_atom_ex(buf, 0)
       IN /\ moov' = buf
          /\ IF a.err # ""
             THEN Raise(a.err) /\ mpos' = a.next /\ UNCHANGED <<atom, stack>>
             ELSE /\ atom' = AsAtom(a)
                  /\ stack' = <<a.position + a.size>>
                  /\ mpos' = a.next
                  /\ pc' = "walk"
                  /\ UNCHANGED result
    /\ pos' = moov_atom.position + Len(moov')
    /\ UNCHANGED <<infile, limit, to_end, cleanup, index, moov_atom, mdat_pos,
                   free_size, offset, child_atom, out_open, outfile, atoms,
                   remaining, mdat_out, copied, run, shape>>

(***************************************************************************)
(* _find_atoms_ex: one iteration of the loop of the innermost generator    *)
(* frame; a frame whose loop ends returns to the frame that called it.     *)
(***************************************************************************)
Containers == {T_trak, T_mdia, T_minf, T_stbl}
Tables == {T_stco, T_co64}

FindAtoms ==
    /\ pc = "walk"
    /\ IF mpos >= stack[Len(stack)]
       THEN /\ stack' = SubSeq(stack, 1, Len(stack) - 1)
            /\ pc' = IF Len(stack) = 1 THEN "open" ELSE "walk"
            /\ UNCHANGED <<result, mpos, atom>>
       ELSE LET a == _read_atom_ex(moov, mpos) IN
            IF a.err # ""
            THEN /\ Raise("MalformedFileError")
                 /\ mpos' = a.next
                 /\ UNCHANGED <<atom, stack>>
            ELSE /\ atom' = AsAtom(a)
                 /\ UNCHANGED result
                 /\ IF a.name \in Containers
                    THEN /\ stack' = Append(stack, a.position + a.size)
                         /\ mpos' = a.next
                         /\ pc' = "walk"
                    ELSE IF a.name \in Tables
                    THEN /\ mpos' = a.next
                         /\ pc' = "table"
                         /\ UNCHANGED stack
                    ELSE /\ mpos' = a.position + a.size
                         /\ pc' = "walk"
                         /\ UNCHANGED stack
    /\ UNCHANGED <<infile, limit, to_end, cleanup, pos, index, moov_atom,
                   mdat_pos, free_size, offset, child_atom, moov, out_open,
                   outfile, atoms, remaining, mdat_out, copied, run, shape>>

(***************************************************************************)
(* _patch_moov, lines 299-320: patch the table the walk has yielded.       *)
(***************************************************************************)
CSize(name) == IF name = T_stco THEN 4 ELSE 8

\* struct.unpack of n entries of csize bytes
RECURSIVE Unpack(_, _)
Unpack(d, csize) ==
    IF d = <<>> THEN <<>>
    ELSE <<(IF csize = 4 THEN U32(SubSeq(d, 1, 4)) ELSE U64(SubSeq(d, 1, 8)))>>
         \o Unpack(SubSeq(d, csize + 1, Len(d)), csize)

\* struct.pack of the entries
Pack(es, csize) == IF csize = 4 THEN Enc32s(es) ELSE Enc64s(es)

\* the entries with the sign of the offset reversed
OffsetEntries_Subtracts(es, off) == [i \in DOMAIN es |-> es[i] - off]

\* offset_entries = [entry + offset for entry in entries]
OffsetEntries(es, off) == [i \in DOMAIN es |-> es[i] + off]

\* moov.seek(p); moov.write(d), for d within the buffer
WriteAt(buf, p, d) ==
    SubSeq(buf, 1, p) \o d \o SubSeq(buf, p + Len(d) + 1, Len(buf))

PatchTable ==
    /\ pc = "table"
    /\ LET hdr == Read(moov, mpos, 8) IN
       IF Len(hdr) # 8
       THEN /\ Raise("struct.error")
            /\ mpos' = mpos + Len(hdr)
            /\ UNCHANGED moov
       ELSE LET entry_count == U32(SubSeq(hdr, 5, 8))
                csize == CSize(atom.name)
                entries_pos == mpos + 8
                avail == Len(moov) - entries_pos
            IN IF entry_count > avail \/ csize * entry_count > avail
               THEN \* moov.read(csize * entry_count) has read to the end
                    /\ Raise("struct.error")
                    /\ mpos' = Len(moov)
                    /\ UNCHANGED moov
               ELSE LET entries == Unpack(Read(moov, entries_pos,
                                               csize * entry_count), csize)
                        offset_entries == OffsetEntries(entries, offset)
                    IN IF \E i \in DOMAIN offset_entries :
                              ~Packable(offset_entries[i], csize)
                       THEN \* moov.seek(entries_pos) precedes struct.pack
                            /\ Raise("struct.error")
                            /\ mpos' = entries_pos
                            /\ UNCHANGED moov
                       ELSE /\ moov' = WriteAt(moov, entries_pos,
                                               Pack(offset_entries, csize))
                            /\ mpos' = entries_pos + csize * entry_count
                            /\ pc' = "walk"
                            /\ UNCHANGED result
    /\ UNCHANGED <<infile, limit, to_end, cleanup, pos, index, moov_atom,
                   mdat_pos, free_size, offset, child_atom, stack, atom,
                   out_open, outfile, atoms, remaining, mdat_out, copied, run, shape>>

(***************************************************************************)
(* process, lines 246-263: create the output file, write the ftyp atoms    *)
(* and, unless to_end, the moov buffer; select the atoms to copy.          *)
(***************************************************************************)
WriteHead ==
    /\ pc = "open"
    /\ out_open' = TRUE
    /\ outfile' = FtypBytes(infile, index) \o (IF ~to_end THEN moov ELSE <<>>)
    /\ atoms' = Select(index, SkipTypes(cleanup))
    /\ pos' = FtypTell(infile, index, pos)
    /\ pc' = "copy"
    /\ UNCHANGED <<infile, limit, to_end, cleanup, result, index,
                   moov_atom, mdat_pos, free_size, offset, child_atom, moov,
                   mpos, stack, atom, remaining, mdat_out, copied, run, shape>>

(***************************************************************************)
(* process, lines 264-270: the next atom to copy, or none left.            *)
(***************************************************************************)
CopyAtom ==
    /\ pc = "copy"
    /\ IF atoms = <<>>
       THEN pc' = "tail" /\ UNCHANGED <<pos, remaining, mdat_out>>
       ELSE /\ pos' = Head(atoms).position
            /\ remaining' = CurLimit(limit, Head(atoms).size)
            /\ mdat_out' = IF Head(atoms).name = T_mdat THEN Len(outfile)
                           ELSE mdat_out
            /\ pc' = "chunk"
    /\ UNCHANGED <<infile, limit, to_end, cleanup, result, index, moov_atom,
                   mdat_pos, free_size, offset, child_atom, moov, mpos, stack,
                   atom, out_open, outfile, atoms, copied, run, shape>>

(***************************************************************************)
(* get_chunks: one iteration, and outfile.write(chunk).                    *)
(***************************************************************************)
GetChunks ==
    /\ pc = "chunk"
    /\ LET chunk == Read(infile, pos, Min(remaining, CHUNK_SIZE)) IN
       IF remaining = 0 \/ chunk = <<>>
       THEN /\ atoms' = Tail(atoms)
            /\ copied' = Append(copied, [atom |-> Head(atoms),
                                         n |-> pos - Head(atoms).position])
            /\ pc' = "copy"
            /\ UNCHANGED <<pos, remaining, outfile>>
       ELSE /\ outfile' = outfile \o chunk
            /\ pos' = pos + Len(chunk)
            /\ remaining' = remaining - Len(chunk)
            /\ UNCHANGED <<pc, atoms, copied>>
    /\ UNCHANGED <<infile, limit, to_end, cleanup, result, index, moov_atom,
                   mdat_pos, free_size, offset, child_atom, moov, mpos, stack,
                   atom, out_open, mdat_out, run, shape>>

(***************************************************************************)
(* process, lines 275-279: the moov buffer last if to_end, and close.      *)
(***************************************************************************)
WriteTail ==
    /\ pc = "tail"
    /\ outfile' = outfile \o (IF to_end THEN moov ELSE <<>>)
    /\ pc' = "done"
    /\ result' = "ok"
    /\ UNCHANGED <<infile, limit, to_end, cleanup, pos, index, moov_atom,
                   mdat_pos, free_size, offset, child_atom, moov, mpos, stack,
                   atom, out_open, atoms, remaining, mdat_out, copied, run, shape>>

(***************************************************************************)
(* The caller runs process again, on the output of a successful first run, *)
(* with the same to_end, cleanup and limit.                                *)
(***************************************************************************)
Rerun ==
    /\ pc = "done"
    /\ result = "ok"
    /\ run = 1
    /\ run' = 2
    /\ infile' = outfile
    /\ pc' = "index"
    /\ result' = "running"
    /\ pos' = 0
    /\ index' = <<>>
    /\ moov_atom' = NoAtom
    /\ mdat_pos' = MDAT_SENTINEL
    /\ free_size' = 0
    /\ offset' = 0
    /\ child_atom' = NoAtom
    /\ moov' = <<>>
    /\ mpos' = 0
    /\ stack' = <<>>
    /\ atom' = NoAtom
    /\ out_open' = FALSE
    /\ outfile' = <<>>
    /\ atoms' = <<>>
    /\ remaining' = 0
    /\ mdat_out' = -1
    /\ copied' = <<>>
    /\ UNCHANGED <<limit, to_end, cleanup, shape>>

Next ==
    \/ ReadAtoms
    \/ EnsureValidIndex
    \/ Plan
    \/ MoovIsCompressed
    \/ PatchLoad
    \/ FindAtoms
    \/ PatchTable
    \/ WriteHead
    \/ CopyAtom
    \/ GetChunks
    \/ WriteTail
    \/ Rerun

Spec == Init /\ [][Next]_vars

(***************************************************************************)
(* _patch_moov on its own: a moov atom built from at most MaxKids          *)
(* children, behind an ftyp atom, and an offset.                           *)
(***************************************************************************)
Path(d) == SubSeq(<<T_trak, T_mdia, T_minf, T_stbl>>, 1, d)

KidSet ==
    {[t |-> x, d |-> 0] :
        x \in {"udta", "udta64", "hidden", "two", "trak64", "tab64"}}
    \cup {[t |-> x, d |-> d] : x \in {"t32", "t64"}, d \in {0, 2, 4}}

\* the bytes of a child: er are the entries of the tables the walk reaches,
\* eh those of a table inside an atom that is no container
KidBytes(k, er, eh) ==
    CASE k.t = "udta"   -> Box(T_udta, <<1, 2, 3, 4>>)
      [] k.t = "udta64" -> Box64(T_udta, <<5, 6, 7, 8>>)
      [] k.t = "hidden" -> Box(T_udta, Table32(eh))
      [] k.t = "two"    -> Nest(Path(4), Table32(er) \o Table64(er))
      [] k.t = "trak64" -> Box64(T_trak, Table32(er))
      [] k.t = "tab64"  -> Box64(T_stco, Enc32(0) \o Enc32(Len(er)) \o Enc32s(er))
      [] k.t = "t32"    -> Nest(Path(k.d), Table32(er))
      [] k.t = "t64"    -> Nest(Path(k.d), Table64(er))

RECURSIVE KidsBytes(_, _, _)
KidsBytes(ks, er, eh) ==
    IF ks = <<>> THEN <<>>
    ELSE KidBytes(Head(ks), er, eh) \o KidsBytes(Tail(ks), er, eh)

KidSeqs == UNION {[1..n -> KidSet] : n \in 1..MaxKids}

EntrySets == {<<1000, 2000, 3000>>, <<100, 70000>>, <<>>}

Offsets == {-500, 40, 1000000}

PatchInit ==
    \E ks \in KidSeqs, es \in EntrySets, off \in Offsets :
        LET head == TopBytes("ftyp")
            m == Box(T_moov, KidsBytes(ks, es, es))
        IN /\ infile = head \o m
           /\ index = <<Atom(T_ftyp, 0, Len(head)), Atom(T_moov, Len(head), Len(m))>>
           /\ moov_atom = Atom(T_moov, Len(head), Len(m))
           /\ offset = off
           /\ shape = [kids |-> ks, entries |-> es]
           /\ pc = "load"
           /\ result = "running"
           /\ pos = Len(head) + Len(m)
           /\ limit = INF
           /\ to_end = FALSE
           /\ cleanup = TRUE
           /\ mdat_pos = MDAT_SENTINEL
           /\ free_size = 0
           /\ child_atom = NoAtom
           /\ moov = <<>>
           /\ mpos = 0
           /\ stack = <<>>
           /\ atom = NoAtom
           /\ out_open = FALSE
           /\ outfile = <<>>
           /\ atoms = <<>>
           /\ remaining = 0
           /\ mdat_out = -1
           /\ copied = <<>>
           /\ run = 1

PatchNext == PatchLoad \/ FindAtoms \/ PatchTable

PatchSpec == PatchInit /\ [][PatchNext]_vars

(***************************************************************************)
(* The plan of process on its own: the index of a file of at most MaxIdx   *)
(* top-level atoms whose sizes are drawn from PlanSizes (the bytes of the  *)
(* payloads, which the plan never reads, are not built).                   *)
(***************************************************************************)
MaxIdx == 3

PlanSizes == {8, 1000000}

PlanItems ==
    {[name |-> n, size |-> z] :
        n \in {T_ftyp, T_moov, T_mdat, T_free, T_wide}, z \in PlanSizes}
    \cup {[name |-> T_zero, size |-> 0]}

\* the bytes _read_atoms advances over an atom of the given size
Extent(size) == IF size = 0 THEN 8 ELSE size

RECURSIVE IndexFrom(_, _)
IndexFrom(items, p) ==
    IF items = <<>> THEN <<>>
    ELSE <<Atom(Head(items).name, p, Head(items).size)>>
         \o IndexFrom(Tail(items), p + Extent(Head(items).size))

NameCount(idx, n) == Cardinality({i \in DOMAIN idx : idx[i].name = n})

PlanInit ==
    \E items \in UNION {[1..n -> PlanItems] : n \in 1..MaxIdx},
       te \in BOOLEAN, cl \in BOOLEAN :
        /\ NameCount(items, T_moov) <= 1
        /\ NameCount(items, T_mdat) <= 1
        /\ index = IndexFrom(items, 0)
        /\ to_end = te
        /\ cleanup = cl
        /\ shape = [items |-> items]
        /\ pc = "validate"
        /\ result = "running"
        /\ infile = <<>>
        /\ pos = 0
        /\ limit = INF
        /\ moov_atom = NoAtom
        /\ mdat_pos = MDAT_SENTINEL
        /\ free_size = 0
        /\ offset = 0
        /\ child_atom = NoAtom
        /\ moov = <<>>
        /\ mpos = 0
        /\ stack = <<>>
        /\ atom = NoAtom
        /\ out_open = FALSE
        /\ outfile = <<>>
        /\ atoms = <<>>
        /\ remaining = 0
        /\ mdat_out = -1
        /\ copied = <<>>
        /\ run = 1

PlanNext == EnsureValidIndex \/ Plan

PlanSpec == PlanInit /\ [][PlanNext]_vars

(***************************************************************************)
(* Vocabulary of the properties.                                           *)
(***************************************************************************)
Done == pc = "done"
Succeeded == pc = "done" /\ result = "ok"
NoLimit == limit = INF \/ limit = 0
\* the plan (lines 196-227) has been computed
Planned == moov_atom # NoAtom
FastStartKinds ==
    {"ok", "FastStartSetupError", "MalformedFileError", "UnsupportedFormatError"}

\* the index holds exactly one moov and exactly one mdat
WellFormed(idx) == NameCount(idx, T_moov) = 1 /\ NameCount(idx, T_mdat) = 1

TheAtom(idx, n) == idx[CHOOSE i \in DOMAIN idx : idx[i].name = n]

\* the bytes of a top-level atom in file f: size bytes from its position, and
\* for an mdat atom of size 0 everything up to the end of the file
AtomBytes(f, a) ==
    IF a.size = 0 /\ a.name = T_mdat THEN SubSeq(f, a.position + 1, Len(f))
    ELSE Read(f, a.position, a.size)

RECURSIVE AllBytes(_, _)
AllBytes(f, as) ==
    IF as = <<>> THEN <<>> ELSE AtomBytes(f, Head(as)) \o AllBytes(f, Tail(as))

\* the entries es, each moved by d
Shifted(es, d) == [i \in DOMAIN es |-> es[i] + d]

\* the sum of what the atoms before position p should add to free_size
RECURSIVE FreeBefore(_, _, _)
FreeBefore(idx, p, cl) ==
    IF idx = <<>> THEN 0
    ELSE (IF Head(idx).position < p
          THEN (IF Head(idx).name = T_free /\ cl THEN Head(idx).size
                ELSE IF Head(idx).name = T_zero THEN 8 ELSE 0)
          ELSE 0)
         + FreeBefore(Tail(idx), p, cl)

(***************************************************************************)
(* C1.  For a well-formed input (one moov, one mdat) and no limit, when    *)
(* process succeeds every chunk-offset entry of the output is the input    *)
(* entry plus offset, offset is the position of mdat in the output minus   *)
(* its position in the input, and each entry addresses in the output the   *)
(* sample byte it addressed in the input.  (Stated for an mdat atom with a *)
(* declared size; C2 covers the mdat atom of size 0.)                      *)
(***************************************************************************)
C1_EntriesFollowMdat ==
    (run = 1 /\ Succeeded /\ NoLimit /\ WellFormed(index)
         /\ TheAtom(index, T_mdat).size # 0
         /\ shape.kind \in {"stco", "co64"})
    => LET e == Entries(shape.layout, shape.kind) IN
       /\ moov = MoovBytes(shape.kind, Shifted(e, offset))
       /\ offset = mdat_out - TheAtom(index, T_mdat).position
       /\ \A i \in DOMAIN e :
             /\ e[i] + offset + 1 \in DOMAIN outfile
             /\ outfile[e[i] + offset + 1] = infile[e[i] + 1]

(***************************************************************************)
(* C2.  With no limit, the output of a successful run is the ftyp bytes,   *)
(* the moov buffer if not to_end, every other atom of the index in order   *)
(* except ftyp, moov and (cleanup) free, each complete, an mdat of size 0  *)
(* through the end of the file, and the moov buffer if to_end.             *)
(***************************************************************************)
C2_OutputLayout ==
    (Succeeded /\ NoLimit)
    => outfile = FtypBytes(infile, index)
                 \o (IF ~to_end THEN moov ELSE <<>>)
                 \o AllBytes(infile, Select(index, SkipTypes(cleanup)))
                 \o (IF to_end THEN moov ELSE <<>>)

(***************************************************************************)
(* C3.  FastStartSetupError is raised exactly when the computed offset is  *)
(* 0, before the moov atom is read for patching and before the output file *)
(* is created; with to_end false, an input whose moov precedes mdat, with  *)
(* no free and no zero atom before mdat, always ends that way.             *)
(***************************************************************************)
MoovFirstClean(idx) ==
    /\ WellFormed(idx)
    /\ TheAtom(idx, T_moov).position < TheAtom(idx, T_mdat).position
    /\ \A i \in DOMAIN idx :
          idx[i].name \in {T_free, T_zero}
          => idx[i].position > TheAtom(idx, T_mdat).position

C3_NoOpError ==
    /\ (result = "FastStartSetupError") <=> (Planned /\ offset = 0)
    /\ result = "FastStartSetupError"
       => (Done /\ moov = <<>> /\ ~out_open /\ outfile = <<>>)
    /\ (Done /\ ~to_end /\ MoovFirstClean(index))
       => (result = "FastStartSetupError" /\ ~out_open)

C3_Witness ==
    /\ run = 1
    /\ result = "FastStartSetupError"
    /\ ~to_end
    /\ Len(index) = 3
    /\ index[1].name = T_ftyp
    /\ index[2].name = T_moov
    /\ index[3].name = T_mdat

(***************************************************************************)
(* C4.  An input whose moov atom has a direct child of type cmov never     *)
(* gets an output file: process does not succeed on it and the output file *)
(* is never created or written (the run is to end in                       *)
(* UnsupportedFormatError).                                                *)
(***************************************************************************)
C4_CompressedRejected ==
    (run = 1 /\ shape.kind \in CmovKinds)
    => (~out_open /\ outfile = <<>> /\ result # "ok")

(***************************************************************************)
(* C5.  After a successful run with cleanup and no limit, the run on its   *)
(* output with the same to_end and cleanup raises FastStartSetupError.     *)
(***************************************************************************)
C5_SecondRunNoOp ==
    (run = 2 /\ cleanup /\ NoLimit /\ Done) => result = "FastStartSetupError"

(***************************************************************************)
(* C6.  Every run ends in success or in an exception of a                  *)
(* FastStartException kind.                                                *)
(***************************************************************************)
C6_OnlyFastStartErrors == Done => result \in FastStartKinds

(***************************************************************************)
(* C7.  With cleanup false no free atom and no zero atom is scrubbed:      *)
(* none adds to the offset, and each is copied with all the bytes it       *)
(* occupies (8 for a zero atom).                                           *)
(***************************************************************************)
C7_NoScrubWithoutCleanup ==
    /\ (~cleanup /\ Planned) => free_size = 0
    /\ (~cleanup /\ Succeeded /\ NoLimit)
       => \A i \in DOMAIN index :
             index[i].name \in {T_free, T_zero}
             => \E j \in DOMAIN copied :
                   /\ copied[j].atom = index[i]
                   /\ copied[j].n = Extent(index[i].size)

(***************************************************************************)
(* C8.  _patch_moov returns a buffer as long as the moov atom in which     *)
(* every entry of every stco and co64 table inside moov, at any depth of   *)
(* trak/mdia/minf/stbl nesting, is the original entry plus offset, and     *)
(* every other byte is unchanged.                                          *)
(***************************************************************************)
C8_PatchedBuffer ==
    pc = "open"
    => /\ Len(moov) = moov_atom.size
       /\ moov = Box(T_moov, KidsBytes(shape.kids,
                                       Shifted(shape.entries, offset),
                                       shape.entries))

\* the spec's example, four containers deep: [1000, 2000, 3000] and -500
C8_Witness ==
    /\ pc = "open"
    /\ offset = -500
    /\ shape.entries = <<1000, 2000, 3000>>
    /\ shape.kids = <<[t |-> "t32", d |-> 4]>>
    /\ moov = Box(T_moov, Nest(Path(4), Table32(<<500, 1500, 2500>>)))

(***************************************************************************)
(* C9.  For an index with one mdat, free_size is the sum of the sizes of   *)
(* the free atoms positioned before the mdat atom (when cleanup) plus 8    *)
(* for each zero atom positioned before it.                                *)
(***************************************************************************)
C9_FreeSize ==
    (Planned /\ NameCount(index, T_mdat) = 1)
    => free_size = FreeBefore(index, TheAtom(index, T_mdat).position, cleanup)

(***************************************************************************)
(* C10.  Every iteration of a scanning loop leaves the stream position     *)
(* beyond the atom it has read (the index scan, the scan of moov's         *)
(* children, the tree walk), and the chunked copy accounts for every byte  *)
(* it has read, so that each loop reaches its bound.                       *)
(***************************************************************************)
C10_LoopsAdvance ==
    /\ (pc = "index" /\ index # <<>>) => pos > index[Len(index)].position
    /\ (pc = "cmov" /\ child_atom # NoAtom) => pos > child_atom.position
    /\ (pc = "walk" /\ atom # NoAtom) => mpos > atom.position
    /\ pc = "chunk"
       => /\ remaining >= 0
          /\ (pos - Head(atoms).position) + remaining
             = CurLimit(limit, Head(atoms).size)

====
